---- MODULE Spec2Model ----
(***************************************************************************)
(* HeartGuard: the feature pipeline (src/src/preprocess.py), the training  *)
(* run and artifact persistence (src/src/train.py, src/src/utils.py) and   *)
(* the inference entry points of the dashboard (src/app/streamlit_app.py). *)
(*                                                                         *)
(* Cell values.  A DataFrame cell is one of                                *)
(*     Num(h)   the number h/2 (numbers are kept in halves so that the     *)
(*              median of an even count of integers is exact),             *)
(*     Str(s)   the Python string s,                                       *)
(*     NaN      a missing value (NaN / None),                              *)
(*     Z(a, d)  a standardized number a / sqrt(d)   (after scaling),       *)
(*     ZU(a, n) a standardized number a / n, scale_ = 1 (zero variance).   *)
(* All are 4-tuples <<tag, int, int, string>> so any two are comparable.   *)
(* Floating point is modelled as exact arithmetic.                         *)
(***************************************************************************)
EXTENDS Integers, Sequences, FiniteSets, TLC

VARIABLES
    fitIn,      \* the table last given to preprocess_features(fit_scaler=True)
    fitRes,     \* what that call returned
    scaler,     \* the fitted StandardScaler shared by the inference calls
    call,       \* the last apply-mode call: its input and what it returned
    bucket,     \* the dashboard's thresholds and the buckets it last displayed
    disk,       \* model/ directory: the three artifact files
    train,      \* the training runs (train.py main): position and artifacts
    reader,     \* load_artifacts: position and what it has loaded so far
    loaded,     \* load_data: the table read from the CSV file and the one returned
    parts,      \* train_test_split_df and what train.py does with the partitions
    session     \* st.session_state.prediction_history and the sidebar's history list

vars == <<fitIn, fitRes, scaler, call, bucket, disk, train, reader, loaded, parts,
          session>>

----------------------------------------------------------------------------
(* Bounds *)

\* rows per table
MaxRows == 2

\* rows per uploaded batch whose probabilities are bucketed
MaxBatch == 2

\* training runs per behaviour
MaxRuns == 2

\* rows of one class in a training set
MaxClass == 7

\* columns of a CSV file given to load_data
MaxCols == 3

\* rows of a data set whose split is followed row by row
MaxSplitRows == 6

\* rows per class of a data set whose split is followed by class counts
MaxLabels == 20

\* predictions made in one dashboard session
MaxPredictions == 6

----------------------------------------------------------------------------
(* Values *)

Num(h) == <<"num", h, 0, "">>
Str(s) == <<"str", 0, 0, s>>
NaN == <<"nan", 0, 0, "">>
Z(a, d) == <<"z", a, d, "">>
ZU(a, n) == <<"zu", a, n, "">>

IsNum(v) == v[1] = "num"
IsStr(v) == v[1] = "str"
IsNaN(v) == v[1] = "nan"
Finite(v) == ~IsNaN(v)

Range(s) == {s[i] : i \in DOMAIN s}

\* a sequence given by a rule, as the explicit tuple of its elements
AsSeq(s) == s \o <<>>

\* FEATURE_COLS, in canonical order
FEATURE_COLS == <<"age", "sex", "trestbps", "chol", "fbs", "thalach", "exang", "oldpeak">>

TARGET_COL == "target"

\* a lower() that leaves the letter case as it is
LowerKeepingCase(s) == s

\* str.lower() on the strings the tables hold
Lower(s) ==
    CASE s = "Male" -> "male"
      [] s = "MALE" -> "male"
      [] s = "M" -> "m"
      [] s = "Female" -> "female"
      [] s = "F" -> "f"
      [] s = "TRUE" -> "true"
      [] s = "True" -> "true"
      [] s = "No" -> "no"
      [] s = "Yes" -> "yes"
      [] OTHER -> s

\* str.strip() on the strings the tables hold
Strip(s) ==
    CASE s = " male " -> "male"
      [] s = " 1 " -> "1"
      [] OTHER -> s

\* the strings float() accepts, with their value in halves
ParsesAsFloat(s) == Strip(s) \in {"0", "1", "2", "3"}

ParseFloat(s) ==
    CASE Strip(s) = "0" -> 0
      [] Strip(s) = "1" -> 2
      [] Strip(s) = "2" -> 4
      [] Strip(s) = "3" -> 6

\* str(v) of a cell: a number prints as "1" (int) or "1.0" (float), never as a word
StrOf(v) ==
    IF IsStr(v) THEN v[4]
    ELSE IF IsNaN(v) THEN "nan"
    ELSE IF v[2] = 0 THEN "0"
    ELSE IF v[2] = 2 THEN "1"
    ELSE "number"

\* X[col].dtype == object: the column holds at least one string
IsObject(col) == \E i \in DOMAIN col : IsStr(col[i])

----------------------------------------------------------------------------
(* Imputation, preprocess.py lines 73-79 *)

Observed(col) == SelectSeq(col, LAMBDA v : ~IsNaN(v))

\* an imputation value that is a global constant
MedianAsZero(col) == Num(0)

\* Series.median(): NaN when no value is observed
Median(col) ==
    LET hs == SortSeq([i \in 1..Len(Observed(col)) |-> Observed(col)[i][2]],
                      LAMBDA a, b : a < b)
        n == Len(hs)
    IN  IF n = 0 THEN NaN
        ELSE IF n % 2 = 1 THEN Num(hs[(n + 1) \div 2])
        ELSE Num((hs[n \div 2] + hs[n \div 2 + 1]) \div 2)

\* fillna(method="ffill"): the last observed value at or before i
RECURSIVE FFillAt(_, _)
FFillAt(col, i) ==
    IF i = 0 THEN NaN
    ELSE IF ~IsNaN(col[i]) THEN col[i]
    ELSE FFillAt(col, i - 1)

\* fillna(method="bfill"): the first observed value at or after i
RECURSIVE BFillAt(_, _)
BFillAt(col, i) ==
    IF i > Len(col) THEN NaN
    ELSE IF ~IsNaN(col[i]) THEN col[i]
    ELSE BFillAt(col, i + 1)

ImputeNumeric(col) ==
    LET med == Median(col)
    IN  AsSeq([i \in 1..Len(col) |-> IF IsNaN(col[i]) THEN med ELSE col[i]])

ImputeObject(col) ==
    AsSeq([i \in 1..Len(col) |->
        LET f == FFillAt(col, i)
            b == BFillAt(col, i)
        IN  IF ~IsNaN(f) THEN f ELSE IF ~IsNaN(b) THEN b ELSE Num(0)])

Impute(col) == IF IsObject(col) THEN ImputeObject(col) ELSE ImputeNumeric(col)

----------------------------------------------------------------------------
(* Binary fields, preprocess.py lines 81-97 *)

\* the dict handed to Series.map (lines 83-86): NaN for a key it does not hold
SexMap(v) ==
    IF IsStr(v) THEN
        IF v[4] \in {"male", "m", "1"} THEN Num(2)
        ELSE IF v[4] \in {"female", "f", "0"} THEN Num(0)
        ELSE NaN
    ELSE IF IsNum(v) THEN
        IF v[2] = 2 THEN Num(2) ELSE IF v[2] = 0 THEN Num(0) ELSE NaN
    ELSE NaN

\* .map({...}).fillna(X["sex"]): an unmapped cell gets its original value back
SexFilled(col) ==
    AsSeq([i \in 1..Len(col) |-> IF IsNaN(SexMap(col[i])) THEN col[i] ELSE SexMap(col[i])])

\* line 87: the filled column is object when the original column was object
\* and map left at least one cell unmapped (fillna then upcasts to object)
SexFilledIsObject(col) ==
    IsObject(col) /\ \E i \in DOMAIN col : IsNaN(SexMap(col[i]))

\* line 89 succeeds: every cell of the filled column converts to float
SexAstypeFloatOk(col) ==
    \A i \in DOMAIN col :
        LET v == SexFilled(col)[i] IN IsStr(v) => ParsesAsFloat(v[4])

\* float -> int of astype(int): truncation toward zero
TruncToInt(h) == IF h >= 0 THEN (h \div 2) * 2 ELSE 0 - (((0 - h) \div 2) * 2)

\* line 89: astype(float).fillna(0).astype(int)
SexAsInt(v) ==
    IF IsStr(v) THEN Num(TruncToInt(ParseFloat(v[4])))
    ELSE IF IsNaN(v) THEN Num(0)
    ELSE Num(TruncToInt(v[2]))

\* a fallback that leaves the cells as they are
SexFallbackKeeping(v) == v

\* line 91: the fallback lambda, applied to the cells of the filled column
SexFallback(v) ==
    IF Strip(Lower(StrOf(v))) \in {"male", "m"} THEN Num(2) ELSE Num(0)

\* lines 82-91 on the (imputed) sex column
EncodeSex(col) ==
    LET filled == SexFilled(col)
    IN  IF ~SexFilledIsObject(col) THEN filled
        ELSE IF SexAstypeFloatOk(col)
             THEN AsSeq([i \in 1..Len(col) |-> SexAsInt(filled[i])])
             ELSE AsSeq([i \in 1..Len(col) |-> SexFallback(filled[i])])

\* a flag lambda that compares the text in any letter case
FlagValueAnyCase(v) ==
    IF Lower(Strip(StrOf(v))) \in {"1", "true"} \/ (IsNum(v) /\ v[2] = 2) THEN Num(2) ELSE Num(0)

\* a flag lambda that lets numbers through as they are
FlagValueKeepingNumbers(v) ==
    IF IsNum(v) THEN v
    ELSE IF Strip(StrOf(v)) \in {"1", "true", "True"} THEN Num(2) ELSE Num(0)

\* lines 95-97: the lambda applied to each cell of fbs and exang
FlagValue(v) ==
    IF Strip(StrOf(v)) \in {"1", "true", "True"} \/ (IsNum(v) /\ v[2] = 2)
    THEN Num(2) ELSE Num(0)

EncodeFlag(col) == AsSeq([i \in 1..Len(col) |-> FlagValue(col[i])])

----------------------------------------------------------------------------
(* Remaining object columns, preprocess.py lines 99-105 *)

ToNumericOk(col) == \A i \in DOMAIN col : IsStr(col[i]) => ParsesAsFloat(col[i][4])

ToNumeric(col) ==
    AsSeq([i \in 1..Len(col) |->
            IF IsStr(col[i]) THEN Num(ParseFloat(col[i][4])) ELSE col[i]])

\* a coding that numbers the rows, not the values
FactorizeByPosition(col) == AsSeq([i \in 1..Len(col) |-> Num(2 * (i - 1))])

\* pd.factorize: codes in order of first appearance
Factorize(col) ==
    AsSeq([i \in 1..Len(col) |->
        LET first == CHOOSE j \in 1..i :
                        col[j] = col[i] /\ \A k \in 1..(j - 1) : col[k] # col[i]
        IN  Num(2 * Cardinality({col[k] : k \in 1..(first - 1)}))])

ToNumericOrCodes(col) ==
    IF ~IsObject(col) THEN col
    ELSE IF ToNumericOk(col) THEN ToNumeric(col)
    ELSE Factorize(col)

\* lines 73-105 for the column named c
EncodeColumn(c, col) ==
    LET imp == Impute(col)
        bin == IF c = "sex" THEN EncodeSex(imp)
               ELSE IF c \in {"fbs", "exang"} THEN EncodeFlag(imp)
               ELSE imp
    IN  ToNumericOrCodes(bin)

----------------------------------------------------------------------------
(* Scaling, preprocess.py lines 107-115 (sklearn StandardScaler) *)

RECURSIVE SumSeq(_)
SumSeq(s) == IF s = <<>> THEN 0 ELSE Head(s) + SumSeq(Tail(s))

\* StandardScaler.fit on one column: NaN cells are disregarded.  n, s, q are the
\* count, the sum and the sum of squares: mean_ = s/n, var_ = q/n - (s/n)^2
FitColumn(col) ==
    LET hs == [i \in 1..Len(Observed(col)) |-> Observed(col)[i][2]]
    IN  [n |-> Len(hs), s |-> SumSeq(hs), q |-> SumSeq([i \in DOMAIN hs |-> hs[i] * hs[i]])]

\* (x - mean_) / scale_; scale_ is 1 where var_ is 0; NaN is kept as NaN
ScaleValue(v, st) ==
    IF IsNaN(v) \/ st.n = 0 THEN NaN
    ELSE IF st.n * st.q - st.s * st.s = 0 THEN ZU(st.n * v[2] - st.s, st.n)
    ELSE Z(st.n * v[2] - st.s, st.n * st.q - st.s * st.s)

ScaleColumn(col, st) == AsSeq([i \in 1..Len(col) |-> ScaleValue(col[i], st)])

\* scaler=None
NoScaler == [fitted |-> FALSE, cols |-> <<>>, stats |-> <<>>]

\* scaler.fit(X[numeric_cols]), line 111
FitScaler(cols, enc) ==
    [fitted |-> TRUE, cols |-> cols,
     stats |-> AsSeq([k \in DOMAIN cols |-> FitColumn(enc[k])])]

\* scaler.transform(X[numeric_cols]), lines 111 and 115: reads sc, returns the matrix
ScalerTransform(sc, cols, enc) ==
    AsSeq([k \in DOMAIN cols |-> ScaleColumn(enc[k], sc.stats[k])])

\* a transform that updates the scaler's statistics from the matrix it is given
ScalerAfterRefit(sc, cols, enc) ==
    [fitted |-> TRUE, cols |-> cols,
     stats |-> AsSeq([k \in DOMAIN cols |-> FitColumn(enc[k])])]

\* what scaler.transform (line 115) leaves in the scaler object it is called on:
\* transform reads mean_ and scale_ and writes nothing
ScalerAfterTransform(sc, cols, enc) == sc

\* sklearn's input validation in transform: the feature count and names must be
\* those seen in fit, otherwise ValueError
ScalerAccepts(sc, cols) == sc.cols = cols

----------------------------------------------------------------------------
(* preprocess_features, preprocess.py lines 57-117 *)
(* A table is [cols |-> the column names in the table's order,             *)
(*             data |-> the columns' cells, in the same order].            *)
(* A result holds the matrix X before scaling (enc) and as returned (X),   *)
(* column k of each being the feature cols[k].                             *)

Table(cols, data) == [cols |-> cols, data |-> data]

HasColumn(df, c) == c \in Range(df.cols)

\* df[c]
Column(df, c) == df.data[CHOOSE i \in DOMAIN df.cols : df.cols[i] = c]

NRows(df) == IF df.data = <<>> THEN 0 ELSE Len(df.data[1])

\* a selection that keeps the features in the order the table holds them
PresentFeaturesInTableOrder(df) == SelectSeq(df.cols, LAMBDA c : c \in Range(FEATURE_COLS))

\* line 66
PresentFeatures(df) == SelectSeq(FEATURE_COLS, LAMBDA c : HasColumn(df, c))

\* the call raised: nothing is returned (cols and enc are the local X it held);
\* scaler is the state the call leaves the scaler object it was given in
Failed(e, cols, enc, sc) ==
    [err |-> e, cols |-> cols, enc |-> enc, X |-> <<>>, y |-> <<>>, scaler |-> sc,
     df |-> Table(<<>>, <<>>)]

\* the local X after line 105, before scaling
Encoded(df) ==
    LET present == PresentFeatures(df)
    IN  AsSeq([k \in DOMAIN present |-> EncodeColumn(present[k], Column(df, present[k]))])

\* lines 60-63
TargetOf(df) == IF HasColumn(df, TARGET_COL) THEN Column(df, TARGET_COL) ELSE <<>>

\* a check that lets a table without any feature through
NoFeaturesIgnored(present) == FALSE

\* line 67: not present_features
NoFeatures(present) == present = <<>>

\* a check that takes any scaler argument for a scaler
ScalerMissingIgnored(sc) == FALSE

\* line 113: scaler is None
ScalerMissing(sc) == ~sc.fitted

\* a function that works on the caller's table itself
CallerTableShared(df, local) == local

\* lines 34 and 58, df = df.copy(): the function works on a copy, local, and
\* the caller's table df is what it was
CallerTable(df, local) == df

\* lines 67-117, present being the features found (line 66) and enc the
\* matrix before scaling (lines 71-105); the field df of a result is the
\* caller's table as the call leaves it
PreprocessResult(df, fit_scaler, sc, present, enc, after) ==
    IF NoFeatures(present)
    THEN [Failed("no_features", <<>>, <<>>, sc) EXCEPT !.df = after]
    ELSE IF fit_scaler THEN
        LET new == FitScaler(present, enc)
        IN  [err |-> "none", cols |-> present, enc |-> enc,
             X |-> ScalerTransform(new, present, enc), y |-> TargetOf(df),
             scaler |-> new, df |-> after]
    ELSE IF ScalerMissing(sc)
    THEN [Failed("no_scaler", present, enc, sc) EXCEPT !.df = after]
    ELSE IF ~ScalerAccepts(sc, present)
    THEN [Failed("scaler_mismatch", present, enc, sc) EXCEPT !.df = after]
    ELSE [err |-> "none", cols |-> present, enc |-> enc,
          X |-> ScalerTransform(sc, present, enc), y |-> TargetOf(df),
          scaler |-> ScalerAfterTransform(sc, present, enc), df |-> after]

preprocess_features(df, fit_scaler, sc) ==
    PreprocessResult(df, fit_scaler, sc, PresentFeatures(df), Encoded(df),
                     CallerTable(df, Table(PresentFeatures(df), Encoded(df))))

----------------------------------------------------------------------------
(* map_columns, preprocess.py lines 20-44 *)

\* str(c).lower() on the column names the tables hold
LowerName(c) ==
    CASE c = "Age" -> "age"
      [] c = "Sex" -> "sex"
      [] c = "Gender" -> "gender"
      [] c = "RestingBP" -> "restingbp"
      [] c = "MaxHR" -> "maxhr"
      [] c = "Chol" -> "chol"
      [] c = "exAng" -> "exang"
      [] OTHER -> c

\* the keys of COLUMN_MAP_CANDIDATES in dict order
STD_NAMES == <<"trestbps", "chol", "thalach", "oldpeak", "exang", "fbs", "sex", "age", "target">>

\* a variant table in which age and sex name each other
COLUMN_MAP_CANDIDATES_Crossed(std) ==
    CASE std = "trestbps" -> <<"trestbps", "restingbp", "trestbp", "restbp", "resting_blood_pressure">>
      [] std = "chol" -> <<"chol", "serum_chol", "cholesterol">>
      [] std = "thalach" -> <<"thalach", "max_heart_rate", "thalachh", "max_heart_rate_achieved", "maxhr">>
      [] std = "oldpeak" -> <<"oldpeak", "st_depression", "st_depress">>
      [] std = "exang" -> <<"exang", "exercise_angina", "exAng", "exercise_induced_angina">>
      [] std = "fbs" -> <<"fbs", "fasting_blood_sugar", "fasting_bs", "fastingbs">>
      [] std = "sex" -> <<"age">>
      [] std = "age" -> <<"sex", "gender">>
      [] std = "target" -> <<"target", "target_class", "heart_disease", "disease", "output", "hd", "num", "heartdisease">>

COLUMN_MAP_CANDIDATES(std) ==
    CASE std = "trestbps" -> <<"trestbps", "restingbp", "trestbp", "restbp", "resting_blood_pressure">>
      [] std = "chol" -> <<"chol", "serum_chol", "cholesterol">>
      [] std = "thalach" -> <<"thalach", "max_heart_rate", "thalachh", "max_heart_rate_achieved", "maxhr">>
      [] std = "oldpeak" -> <<"oldpeak", "st_depression", "st_depress">>
      [] std = "exang" -> <<"exang", "exercise_angina", "exAng", "exercise_induced_angina">>
      [] std = "fbs" -> <<"fbs", "fasting_blood_sugar", "fasting_bs", "fastingbs">>
      [] std = "sex" -> <<"sex", "gender">>
      [] std = "age" -> <<"age">>
      [] std = "target" -> <<"target", "target_class", "heart_disease", "disease", "output", "hd", "num", "heartdisease">>

\* line 35: {str(c).lower(): c}; of two columns with one lower-cased name the later wins
ColsByLower(df, low) ==
    LET hits == {i \in DOMAIN df.cols : LowerName(df.cols[i]) = low}
    IN  df.cols[CHOOSE i \in hits : \A j \in hits : j <= i]

LowerNames(df) == {LowerName(df.cols[i]) : i \in DOMAIN df.cols}

\* a search in which the last variant found wins
LastVariant(df, std) ==
    LET vs == COLUMN_MAP_CANDIDATES(std)
        found == {k \in DOMAIN vs : LowerName(vs[k]) \in LowerNames(df)}
    IN  IF found = {} THEN 0 ELSE CHOOSE k \in found : \A j \in found : k >= j

\* lines 37-41 for one canonical name: the first variant found, 0 if none
FirstVariant(df, std) ==
    LET vs == COLUMN_MAP_CANDIDATES(std)
        found == {k \in DOMAIN vs : LowerName(vs[k]) \in LowerNames(df)}
    IN  IF found = {} THEN 0 ELSE CHOOSE k \in found : \A j \in found : k <= j

\* name_map (lines 36-41), as the column each canonical name of STD_NAMES is
\* mapped from: "" when no variant of it is found
NameMap(df) ==
    AsSeq([k \in DOMAIN STD_NAMES |->
        LET std == STD_NAMES[k]
            v == FirstVariant(df, std)
        IN  IF v = 0 THEN ""
            ELSE ColsByLower(df, LowerName(COLUMN_MAP_CANDIDATES(std)[v]))])

\* df.rename(columns=name_map) on one column name
Renamed(name_map, c) ==
    IF \E k \in DOMAIN STD_NAMES : name_map[k] = c
    THEN STD_NAMES[CHOOSE k \in DOMAIN STD_NAMES : name_map[k] = c]
    ELSE c

\* a map_columns that keeps only the columns it has resolved
map_columns_dropping(df) ==
    LET name_map == NameMap(df)
        kept == SelectSeq(AsSeq([i \in DOMAIN df.cols |-> i]),
                          LAMBDA i : \E k \in DOMAIN STD_NAMES : name_map[k] = df.cols[i])
    IN  Table(AsSeq([j \in DOMAIN kept |-> Renamed(name_map, df.cols[kept[j]])]),
              AsSeq([j \in DOMAIN kept |-> df.data[kept[j]]]))

map_columns(df) ==
    LET name_map == NameMap(df)
    IN  Table(AsSeq([i \in DOMAIN df.cols |-> Renamed(name_map, df.cols[i])]), df.data)

----------------------------------------------------------------------------
(* Risk buckets (src/app/streamlit_app.py).  Probabilities and thresholds  *)
(* are in hundredths.                                                      *)

\* line 343
low_default == 33
high_default == 66

\* positions of the "Low threshold" slider (line 344: 0.0 to 0.9, step 0.01)
LowThresholds == {0, 10, 33, 66, 90}

\* positions of the "High threshold" slider (line 345: 0.1 to 0.99, step 0.01)
HighThresholds == {10, 33, 50, 66, 99}

\* values of model.predict_proba(...)[., 1]: the slider positions and their neighbours
Probabilities == {0, 9, 10, 11, 32, 33, 34, 50, 65, 66, 67, 90, 99, 100}

\* a bucketize whose second comparison is strict
bucketize_strict(p, low_thr, high_thr) ==
    IF p < low_thr THEN "Low"
    ELSE IF p < high_thr THEN "Moderate"
    ELSE "High"

\* lines 598-604: the bucket of the single prediction
predict_bucket(proba, low_thr, high_thr) ==
    IF proba < low_thr THEN "Low"
    ELSE IF proba <= high_thr THEN "Moderate"
    ELSE "High"

\* a bucketize that compares with the high threshold first
bucketize_high_first(p, low_thr, high_thr) ==
    IF p <= high_thr THEN "Moderate"
    ELSE IF p < low_thr THEN "Low"
    ELSE "High"

\* lines 941-946: bucketize(p) of the batch path, low_thr and high_thr from its closure
bucketize(p, low_thr, high_thr) ==
    IF p < low_thr THEN "Low"
    ELSE IF p <= high_thr THEN "Moderate"
    ELSE "High"

----------------------------------------------------------------------------
(* The tables the calls are made on *)

\* cells of a plain numeric column (age, trestbps, chol, thalach, oldpeak)
NumCells == {NaN, Num(0), Num(2), Num(4), Str("3"), Str("abc")}

\* cells of the sex column
SexCells == {NaN, Num(0), Num(2), Num(4), Str("male"), Str("female"), Str("Male"),
             Str("1"), Str("2"), Str("unknown")}

\* cells of the fbs and exang columns
FlagCells == {NaN, Num(0), Num(2), Num(4), Str("1"), Str("true"), Str("True"), Str("TRUE"), Str("yes")}

\* the content of a column the call is not about
BaseCell(c, i) ==
    IF LowerName(c) \in {"sex", "gender", "target"} THEN Num(2 * (i % 2))
    ELSE IF LowerName(c) \in {"fbs", "exang"} THEN Num(0)
    ELSE Num(2 * i)

BaseCol(c, n) == AsSeq([i \in 1..n |-> BaseCell(c, i)])

\* a labelled table with all 8 features, one column of which holds col
FocusTable(f, col) ==
    LET names == FEATURE_COLS \o <<TARGET_COL>>
    IN  Table(names, AsSeq([k \in DOMAIN names |->
                        IF names[k] = f THEN AsSeq(col) ELSE BaseCol(names[k], Len(col))]))

\* tables that hold only some columns, under canonical or variant names
ColumnLists ==
    { <<"id">>, <<"age">>, <<"age", "sex">>, <<"sex", "age">>, <<"Age", "gender", "id">>,
      <<"age", "sex", "trestbps", "chol", "fbs", "thalach", "exang">> }

SubsetTable(names, n) == Table(names, AsSeq([k \in DOMAIN names |-> BaseCol(names[k], n)]))

\* the columns whose content the calls vary
Focus == {"age", "sex", "fbs"}

CellsOf(f) == IF f = "sex" THEN SexCells ELSE IF f = "fbs" THEN FlagCells ELSE NumCells

\* row i of a table, as a one-row table
RowOf(df, i) == Table(df.cols, AsSeq([k \in DOMAIN df.data |-> <<df.data[k][i]>>]))

\* the record of a 54-year-old man, as the dashboard's form gives it
ExampleRecord ==
    Table(FEATURE_COLS, <<<<Num(108)>>, <<Str("Male")>>, <<Num(260)>>, <<Num(492)>>,
                          <<Str("No")>>, <<Num(300)>>, <<Str("No")>>, <<Num(2)>>>>)

\* a training table whose ages, 45 and 63, have mean 54 and standard deviation 9
ExampleTraining == FocusTable("age", <<Num(90), Num(126)>>)

EmptyTable == Table(<<>>, <<>>)

----------------------------------------------------------------------------
(* The feature pipeline as a state machine *)

NoResult == Failed("unset", <<>>, <<>>, NoScaler)

\* the training run has ended
Released == Failed("released", <<>>, <<>>, NoScaler)

\* what the batch handler displays: nothing when it has not run or has failed
NoOutput == [status |-> "none", probability |-> <<>>, prediction |-> <<>>, risk_bucket |-> <<>>]

NoCall == [kind |-> "none", row |-> 0, upload |-> EmptyTable, upload_after |-> EmptyTable,
           input |-> EmptyTable, res |-> NoResult, out |-> NoOutput]

InitPre ==
    /\ fitIn = EmptyTable
    /\ fitRes = NoResult
    /\ scaler = NoScaler
    /\ call = NoCall

\* train.py line 24: preprocess_features(df, fit_scaler=True); the scaler it
\* returns becomes the one the inference calls share.  Training is a one-shot
\* job: one fit per behaviour
FitTransform(t) ==
    LET r == preprocess_features(t, TRUE, NoScaler)
    IN  /\ fitRes = NoResult
        /\ call = NoCall
        /\ fitIn' = t
        /\ fitRes' = r
        /\ scaler' = IF r.err = "none" THEN r.scaler ELSE scaler
        /\ UNCHANGED <<call, bucket, disk, train, reader, loaded, parts, session>>

\* an apply-mode call on table t: the scaler object is shared, so whatever
\* the call leaves in it is what the next call finds
ApplyCall(kind, i, t) ==
    LET r == preprocess_features(t, FALSE, scaler)
    IN  /\ call' = [kind |-> kind, row |-> i, upload |-> t, upload_after |-> t, input |-> t,
                    res |-> r, out |-> NoOutput]
        /\ scaler' = r.scaler
        /\ UNCHANGED <<fitIn, fitRes, bucket, disk, train, reader, loaded, parts, session>>

\* preprocess_features(row, fit_scaler=False, scaler=scaler) on row i of the
\* table the scaler was fit on
TransformRow(i) ==
    /\ call = NoCall
    /\ fitRes.err = "none"
    /\ i \in 1..NRows(fitIn)
    /\ ApplyCall("row", i, RowOf(fitIn, i))

\* train.py ends: the table and the matrix are gone, the scaler stays (as the
\* persisted artifact the dashboard loads)
Deploy ==
    /\ fitRes.err = "none"
    /\ call = NoCall
    /\ fitIn' = EmptyTable
    /\ fitRes' = Released
    /\ UNCHANGED <<scaler, call, bucket, disk, train, reader, loaded, parts, session>>

\* the dashboard runs: before any training (no scaler) or with the deployed one
Serving == fitRes \in {NoResult, Released}

\* streamlit_app.py line 595 and the tests: preprocess_features on a record
Transform(t) ==
    /\ Serving
    /\ call = NoCall
    /\ ApplyCall("single", 0, t)

\* a handler that hands the resolved table on as it is
EnsureFeatureColumnsSkipped(df) == df

\* streamlit_app.py lines 931-934: every absent feature becomes an all-NaN column
EnsureFeatureColumns(df) ==
    LET missing == SelectSeq(FEATURE_COLS, LAMBDA c : ~HasColumn(df, c))
    IN  Table(df.cols \o missing,
              df.data \o [k \in DOMAIN missing |-> AsSeq([i \in 1..NRows(df) |-> NaN])])

\* the probabilities the classifier returns in the batch handler: one below
\* the low threshold and 0.5, one above the high threshold and 0.5
BatchProbabilities == {low_default - 1, high_default + 1}

\* model.predict_proba(Xb) can raise: the classifier of some scikit-learn
\* versions rejects a matrix that holds NaN
PredictProbaMayRaise(X) ==
    \E k \in DOMAIN X : \E i \in DOMAIN X[k] : IsNaN(X[k][i])

\* a batch output whose buckets are listed from the last row to the first
BatchOutputReversed(probas, low_thr, high_thr) ==
    [status |-> "ok",
     probability |-> probas,
     prediction |-> AsSeq([i \in DOMAIN probas |-> IF probas[i] >= 50 THEN 1 ELSE 0]),
     risk_bucket |-> AsSeq([i \in DOMAIN probas |->
                        bucketize(probas[Len(probas) + 1 - i], low_thr, high_thr)])]

\* streamlit_app.py lines 938-951: the three columns added to out
BatchOutput(probas, low_thr, high_thr) ==
    [status |-> "ok",
     probability |-> probas,
     prediction |-> AsSeq([i \in DOMAIN probas |-> IF probas[i] >= 50 THEN 1 ELSE 0]),
     risk_bucket |-> AsSeq([i \in DOMAIN probas |-> bucketize(probas[i], low_thr, high_thr)])]

\* streamlit_app.py lines 914-951: the batch handler on the uploaded table t,
\* the classifier returning one probability per row or raising; an exception
\* of any step ends the handler with nothing displayed (the except of line 1011)
BatchTransform(t) ==
    /\ Serving
    /\ call = NoCall
    /\ LET df_in == EnsureFeatureColumns(map_columns(t))
           r == preprocess_features(df_in, FALSE, scaler)
           shown(out) ==
               /\ call' = [kind |-> "batch", row |-> 0, upload |-> t,
                           upload_after |-> CallerTable(t, map_columns(t)),
                           input |-> df_in, res |-> r, out |-> out]
               /\ scaler' = r.scaler
       IN  \/ /\ r.err # "none" \/ PredictProbaMayRaise(r.X)
              /\ shown(NoOutput)
           \/ /\ r.err = "none"
              /\ \E probas \in [1..NRows(t) -> BatchProbabilities] :
                    shown(BatchOutput(probas, bucket.low_thr, bucket.high_thr))
    /\ UNCHANGED <<fitIn, fitRes, bucket, disk, train, reader, loaded, parts, session>>

\* the caller has consumed the result of the call
Return ==
    /\ call # NoCall
    /\ call' = NoCall
    /\ UNCHANGED <<fitIn, fitRes, scaler, bucket, disk, train, reader, loaded, parts, session>>

NextPre ==
    \/ /\ fitRes = NoResult /\ call = NoCall
       /\ \E n \in 1..MaxRows : \E f \in Focus : \E col \in [1..n -> CellsOf(f)] :
            FitTransform(FocusTable(f, col))
    \/ /\ fitRes = NoResult /\ call = NoCall
       /\ \E n \in 1..MaxRows : \E names \in ColumnLists : FitTransform(SubsetTable(names, n))
    \/ \E i \in 1..MaxRows : TransformRow(i)
    \/ Deploy
    \/ /\ Serving /\ call = NoCall
       /\ \E f \in Focus : \E v \in CellsOf(f) : Transform(FocusTable(f, <<v>>))
    \/ /\ Serving /\ call = NoCall
       /\ \E names \in ColumnLists : Transform(SubsetTable(names, 1))
    \/ /\ fitRes = NoResult /\ call = NoCall
       /\ FitTransform(ExampleTraining)
    \/ /\ Serving /\ call = NoCall
       /\ Transform(ExampleRecord)
    \/ /\ Serving /\ call = NoCall
       /\ \E f \in Focus : \E v \in CellsOf(f) : BatchTransform(FocusTable(f, <<v>>))
    \/ /\ Serving /\ call = NoCall
       /\ \E n \in 1..MaxBatch : \E names \in ColumnLists : BatchTransform(SubsetTable(names, n))
    \/ Return

----------------------------------------------------------------------------
(* load_data, preprocess.py lines 47-54 *)

\* column names of the CSV files
RawNames == {"age", "sex", "Sex", "gender", "chol", "Chol", "RestingBP", "num", "exAng", "id"}

\* a CSV file of one row whose columns are names, column k holding the number k
RawTable(names) ==
    Table(names, AsSeq([k \in DOMAIN names |-> <<Num(2 * k)>>]))

NotLoaded == [raw |-> EmptyTable, df |-> EmptyTable]

InitLoad == loaded = NotLoaded

\* lines 52-54: df = pd.read_csv(csv_path); df = map_columns(df); return df
load_data(raw) ==
    /\ loaded = NotLoaded
    /\ loaded' = [raw |-> raw, df |-> map_columns(raw)]
    /\ UNCHANGED <<fitIn, fitRes, scaler, call, bucket, disk, train, reader, parts, session>>

\* the process that loaded the table has ended
Unload ==
    /\ loaded # NotLoaded
    /\ loaded' = NotLoaded
    /\ UNCHANGED <<fitIn, fitRes, scaler, call, bucket, disk, train, reader, parts, session>>

\* read_csv gives distinct column names
Distinct(names) ==
    \A i, j \in DOMAIN names : i # j => names[i] # names[j]

NextLoad ==
    \/ /\ loaded = NotLoaded
       /\ \E n \in 1..MaxCols : \E names \in [1..n -> RawNames] :
            Distinct(names) /\ load_data(RawTable(names))
    \/ Unload

----------------------------------------------------------------------------
(* The dashboard's thresholds and the buckets it shows *)

NoBuckets == [path |-> "none", probas |-> <<>>, labels |-> <<>>]

InitBucket ==
    bucket = [low_thr |-> low_default, high_thr |-> high_default, shown |-> NoBuckets]

\* lines 344-347: the sliders are moved; low_thr >= high_thr only draws a warning
SetThresholds(low, high) ==
    /\ bucket.shown = NoBuckets
    /\ bucket' = [bucket EXCEPT !.low_thr = low, !.high_thr = high]
    /\ UNCHANGED <<fitIn, fitRes, scaler, call, disk, train, reader, loaded, parts, session>>

\* lines 596-604: Predict is clicked and the classifier returns proba
PredictClicked(proba) ==
    /\ bucket.shown = NoBuckets
    /\ bucket' = [bucket EXCEPT !.shown =
                    [path |-> "single", probas |-> <<proba>>,
                     labels |-> <<predict_bucket(proba, bucket.low_thr, bucket.high_thr)>>]]
    /\ UNCHANGED <<fitIn, fitRes, scaler, call, disk, train, reader, loaded, parts, session>>

\* lines 938-951: a file is uploaded and the classifier returns probas
BatchPredict(probas) ==
    /\ bucket.shown = NoBuckets
    /\ bucket' = [bucket EXCEPT !.shown =
                    [path |-> "batch", probas |-> probas,
                     labels |-> AsSeq([i \in DOMAIN probas |->
                                  bucketize(probas[i], bucket.low_thr, bucket.high_thr)])]]
    /\ UNCHANGED <<fitIn, fitRes, scaler, call, disk, train, reader, loaded, parts, session>>

\* the script is rerun: what the last run displayed is gone
Rerun ==
    /\ bucket.shown # NoBuckets
    /\ bucket' = [bucket EXCEPT !.shown = NoBuckets]
    /\ UNCHANGED <<fitIn, fitRes, scaler, call, disk, train, reader, loaded, parts, session>>

NextBucket ==
    \/ \E low \in LowThresholds : \E high \in HighThresholds : SetThresholds(low, high)
    \/ \E proba \in Probabilities : PredictClicked(proba)
    \/ \E n \in 1..MaxBatch : \E probas \in [1..n -> Probabilities] : BatchPredict(probas)
    \/ Rerun

----------------------------------------------------------------------------
(* Training run and artifacts (src/src/train.py, src/src/utils.py, and     *)
(* load_artifacts of src/app/streamlit_app.py).  An object or a file is    *)
(* identified by the number of the training run that produced it; 0 is     *)
(* None.  The training set is its count of rows per class, <<c0, c1>>.     *)

FILES == {"model.joblib", "scaler.joblib", "metrics.json"}

Absent == [state |-> "absent", run |-> 0]
Partial(r) == [state |-> "partial", run |-> r]
Complete(r) == [state |-> "complete", run |-> r]

\* Path.exists()
Exists(f) == f.state # "absent"

\* sklearn _validate_shuffle_split with test_size=0.2 (utils.py line 26): ceil(0.2 n)
NTest(n) == (n + 4) \div 5
NTrain(n) == n - NTest(n)

NClasses(c) == Cardinality({k \in 1..2 : c[k] > 0})

\* train_test_split(..., stratify=y) raises ValueError (utils.py lines 26-28)
SplitFails(c) ==
    LET n == c[1] + c[2]
    IN  \/ NTrain(n) = 0
        \/ \E k \in 1..2 : c[k] = 1
        \/ NTrain(n) < NClasses(c)
        \/ NTest(n) < NClasses(c)

\* a split that draws the rows without regard to their class
ApproximateModeUnstratified(c, n_draws) ==
    {a \in (0..c[1]) \X (0..c[2]) : a[1] + a[2] = n_draws}

\* sklearn _approximate_mode(class_counts, n_draws): the allocations it can
\* return, a tie between equal remainders being broken by the random state
ApproximateMode(c, n_draws) ==
    LET n == c[1] + c[2]
        floored == <<(c[1] * n_draws) \div n, (c[2] * n_draws) \div n>>
        rem == <<(c[1] * n_draws) % n, (c[2] * n_draws) % n>>
        need == n_draws - floored[1] - floored[2]
    IN  IF need = 0 THEN {floored}
        ELSE {a \in {<<floored[1] + 1, floored[2]>>, <<floored[1], floored[2] + 1>>} :
                \/ a[1] > floored[1] /\ rem[1] >= rem[2]
                \/ a[2] > floored[2] /\ rem[2] >= rem[1]}

\* the class counts of y_test that the stratified split can return
TestCounts(c) ==
    {<<c[1] - a[1], c[2] - a[2]>> : a \in ApproximateMode(c, NTrain(c[1] + c[2]))}

\* evaluate_model raises (utils.py lines 31-47): predict_proba(...)[:, 1] when the
\* classifier saw one class, roc_auc_score when y_test holds one class
EvaluateFails(c, test) ==
    \/ NClasses(c) < 2
    \/ NClasses(test) < 2

\* a main that persists the artifacts before it evaluates the classifier
StatementAfterSavingFirst(pc) ==
    CASE pc = "preprocess" -> "split"
      [] pc = "split" -> "fit"
      [] pc = "fit" -> "dump_model"
      [] pc = "dump_model" -> "dump_scaler"
      [] pc = "dump_scaler" -> "dump_metrics"
      [] pc = "dump_metrics" -> "evaluate"
      [] pc = "evaluate" -> "done"

\* the statement main runs after the one at pc (train.py lines 24-46, then
\* save_artifacts, utils.py lines 54-59)
StatementAfter(pc) ==
    CASE pc = "preprocess" -> "split"
      [] pc = "split" -> "fit"
      [] pc = "fit" -> "evaluate"
      [] pc = "evaluate" -> "dump_model"
      [] pc = "dump_model" -> "dump_scaler"
      [] pc = "dump_scaler" -> "dump_metrics"
      [] pc = "dump_metrics" -> "done"

\* the file a statement of save_artifacts writes (utils.py lines 52-57)
FileOf(pc) ==
    CASE pc = "dump_model" -> "model.joblib"
      [] pc = "dump_scaler" -> "scaler.joblib"
      [] pc = "dump_metrics" -> "metrics.json"

Idle == [run |-> 0, pc |-> "idle", y |-> <<0, 0>>, test |-> <<0, 0>>, writing |-> FALSE, touched |-> {}]

NoArtifacts == [pc |-> "idle", model |-> 0, scaler |-> 0, metrics |-> 0]

InitPersist ==
    /\ disk = [f \in FILES |-> Absent]
    /\ train = Idle
    /\ reader = NoArtifacts

\* python src/train.py is started on a labelled data set; line 24 fits the scaler
StartRun(c) ==
    /\ train.pc \in {"idle", "done", "failed"}
    /\ train.run < MaxRuns
    /\ train' = [run |-> train.run + 1, pc |-> StatementAfter("preprocess"), y |-> c, test |-> <<0, 0>>,
                 writing |-> FALSE, touched |-> {}]
    /\ UNCHANGED <<fitIn, fitRes, scaler, call, bucket, disk, reader, loaded, parts, session>>

\* train.py line 28
Split ==
    /\ train.pc = "split"
    /\ \/ /\ SplitFails(train.y)
          /\ train' = [train EXCEPT !.pc = "failed"]
       \/ /\ ~SplitFails(train.y)
          /\ \E t \in TestCounts(train.y) :
                train' = [train EXCEPT !.pc = StatementAfter("split"), !.test = t]
    /\ UNCHANGED <<fitIn, fitRes, scaler, call, bucket, disk, reader, loaded, parts, session>>

\* train.py lines 31-33
FitClassifier ==
    /\ train.pc = "fit"
    /\ train' = [train EXCEPT !.pc = StatementAfter("fit")]
    /\ UNCHANGED <<fitIn, fitRes, scaler, call, bucket, disk, reader, loaded, parts, session>>

\* train.py line 37
Evaluate ==
    /\ train.pc = "evaluate"
    /\ train' = [train EXCEPT !.pc = IF EvaluateFails(train.y, train.test) THEN "failed"
                                     ELSE StatementAfter("evaluate")]
    /\ UNCHANGED <<fitIn, fitRes, scaler, call, bucket, disk, reader, loaded, parts, session>>

\* joblib.dump / open(path, "w") creates or truncates the file (utils.py lines 54, 55, 58)
OpenFile ==
    /\ train.pc \in {"dump_model", "dump_scaler", "dump_metrics"}
    /\ ~train.writing
    /\ disk' = [disk EXCEPT ![FileOf(train.pc)] = Partial(train.run)]
    /\ train' = [train EXCEPT !.writing = TRUE, !.touched = @ \cup {FileOf(train.pc)}]
    /\ UNCHANGED <<fitIn, fitRes, scaler, call, bucket, reader, loaded, parts, session>>

\* the content is written and the file closed (utils.py lines 54, 55, 59)
CloseFile ==
    /\ train.pc \in {"dump_model", "dump_scaler", "dump_metrics"}
    /\ train.writing
    /\ disk' = [disk EXCEPT ![FileOf(train.pc)] = Complete(train.run)]
    /\ train' = [train EXCEPT !.writing = FALSE, !.pc = StatementAfter(train.pc)]
    /\ UNCHANGED <<fitIn, fitRes, scaler, call, bucket, reader, loaded, parts, session>>

\* a dashboard process calls load_artifacts (line 211)
StartLoad ==
    /\ reader.pc \in {"idle", "done", "error"}
    /\ reader' = [NoArtifacts EXCEPT !.pc = "check"]
    /\ UNCHANGED <<fitIn, fitRes, scaler, call, bucket, disk, train, loaded, parts, session>>

\* line 196
ArtifactsMissing(d) ==
    ~Exists(d["model.joblib"]) \/ ~Exists(d["scaler.joblib"])

\* a return that drops the scaler
ReturnedWithoutScaler(model, sc, metrics) ==
    [pc |-> "done", model |-> model, scaler |-> 0, metrics |-> metrics]

\* line 208: return model, scaler, metrics
Returned(model, sc, metrics) ==
    [pc |-> "done", model |-> model, scaler |-> sc, metrics |-> metrics]

\* lines 196-197.  The two exists() calls are one step: no file is ever
\* removed, so what they see together at the later call is what they see apart.
CheckArtifacts ==
    /\ reader.pc = "check"
    /\ reader' = IF ArtifactsMissing(disk) THEN Returned(0, 0, 0)
                 ELSE [reader EXCEPT !.pc = "load_model"]
    /\ UNCHANGED <<fitIn, fitRes, scaler, call, bucket, disk, train, loaded, parts, session>>

\* lines 199 and 200: joblib.load raises on a file that is still being written
JoblibLoad(field, file, next) ==
    /\ reader' = IF disk[file].state = "complete"
                 THEN [reader EXCEPT ![field] = disk[file].run, !.pc = next]
                 ELSE [NoArtifacts EXCEPT !.pc = "error"]
    /\ UNCHANGED <<fitIn, fitRes, scaler, call, bucket, disk, train, loaded, parts, session>>

LoadModel ==
    /\ reader.pc = "load_model"
    /\ JoblibLoad("model", "model.joblib", "load_scaler")

LoadScaler ==
    /\ reader.pc = "load_scaler"
    /\ JoblibLoad("scaler", "scaler.joblib", "load_metrics")

\* lines 201-208: a missing or unparsable metrics.json gives metrics = None
LoadMetrics ==
    /\ reader.pc = "load_metrics"
    /\ reader' = Returned(reader.model, reader.scaler,
                          IF disk["metrics.json"].state = "complete"
                          THEN disk["metrics.json"].run ELSE 0)
    /\ UNCHANGED <<fitIn, fitRes, scaler, call, bucket, disk, train, loaded, parts, session>>

NextPersist ==
    \/ \E c0, c1 \in 0..MaxClass : c0 + c1 > 0 /\ StartRun(<<c0, c1>>)
    \/ Split
    \/ FitClassifier
    \/ Evaluate
    \/ OpenFile
    \/ CloseFile
    \/ StartLoad
    \/ CheckArtifacts
    \/ LoadModel
    \/ LoadScaler
    \/ LoadMetrics

----------------------------------------------------------------------------

(* train_test_split_df and evaluate_model (src/src/utils.py) as train.py   *)
(* uses them, row by row: a data set is its sequence of labels, a          *)
(* partition a set of row numbers.                                         *)

\* rows of class 0 and of class 1 among the rows S of y
CountsIn(y, S) ==
    <<Cardinality({i \in S : y[i] = 0}), Cardinality({i \in S : y[i] = 1})>>

\* sklearn confusion_matrix(y_test, y_pred), read by columns
ConfusionMatrixTransposed(y, rows, pred) ==
    LET C(t, p) == Cardinality({i \in rows : y[i] = t /\ pred[i] = p})
    IN  <<<<C(0, 0), C(1, 0)>>, <<C(0, 1), C(1, 1)>>>>

\* utils.py line 45: confusion_matrix(y_test, y_pred).tolist(): row = true
\* label, column = predicted label, labels in sorted order
ConfusionMatrix(y, rows, pred) ==
    LET C(t, p) == Cardinality({i \in rows : y[i] = t /\ pred[i] = p})
    IN  <<<<C(0, 0), C(0, 1)>>, <<C(1, 0), C(1, 1)>>>>

\* utils.py line 40: accuracy_score(y_test, y_pred), the mean of
\* y_test == y_pred, kept as <<numerator, denominator>>
AccuracyScore(y, rows, pred) ==
    <<Cardinality({i \in rows : y[i] = pred[i]}), Cardinality(rows)>>

NoMetrics == [accuracy |-> <<0, 1>>, confusion_matrix |-> <<>>]

NoParts ==
    [pc |-> "idle", y |-> <<>>, counts |-> <<0, 0>>, test_counts |-> <<0, 0>>,
     train |-> {}, test |-> {}, fit_on |-> {}, eval_on |-> {}, y_pred |-> <<>>,
     metrics |-> NoMetrics]

InitSplit == parts = NoParts

\* utils.py lines 25-28 on the labels y: StratifiedShuffleSplit gives the
\* train partition n_i rows of each class, the first n_i of a permutation of
\* the class, and the test partition the t_i that follow them, t_i being the
\* allocation of the n_test rows among the rows that remain
train_test_split_df(y) ==
    LET c == CountsIn(y, DOMAIN y)
    IN  /\ parts.pc = "idle"
        /\ \/ /\ SplitFails(c)
              /\ parts' = [NoParts EXCEPT !.pc = "failed", !.y = y, !.counts = c]
           \/ /\ ~SplitFails(c)
              /\ \E n_i \in ApproximateMode(c, NTrain(Len(y))) :
                 \E tr \in SUBSET DOMAIN y :
                    /\ CountsIn(y, tr) = n_i
                    /\ \E t_i \in ApproximateMode(<<c[1] - n_i[1], c[2] - n_i[2]>>, NTest(Len(y))) :
                       \E te \in SUBSET (DOMAIN y \ tr) :
                          /\ CountsIn(y, te) = t_i
                          /\ parts' = [NoParts EXCEPT !.pc = "split", !.y = y, !.counts = c,
                                          !.train = tr, !.test = te, !.test_counts = t_i]
        /\ UNCHANGED <<fitIn, fitRes, scaler, call, bucket, disk, train, reader, loaded, session>>

\* the same call on a data set given by its class counts c alone
SplitCounts(c) ==
    /\ parts.pc = "idle"
    /\ \/ /\ SplitFails(c)
          /\ parts' = [NoParts EXCEPT !.pc = "failed", !.counts = c]
       \/ /\ ~SplitFails(c)
          /\ \E t \in TestCounts(c) :
                parts' = [NoParts EXCEPT !.pc = "counted", !.counts = c, !.test_counts = t]
    /\ UNCHANGED <<fitIn, fitRes, scaler, call, bucket, disk, train, reader, loaded, session>>

\* a main that fits the classifier on the whole data set
FitRowsAll(p) == DOMAIN p.y

\* train.py line 33: clf.fit(X_train, y_train)
FitRows(p) == p.train

FitOnTrain ==
    /\ parts.pc = "split"
    /\ parts' = [parts EXCEPT !.pc = "fit", !.fit_on = FitRows(parts)]
    /\ UNCHANGED <<fitIn, fitRes, scaler, call, bucket, disk, train, reader, loaded, session>>

\* train.py line 37, utils.py lines 31-47: evaluate_model(clf, X_test, y_test),
\* the classifier predicting a label for each test row
evaluate_model ==
    /\ parts.pc = "fit"
    /\ \/ /\ EvaluateFails(CountsIn(parts.y, parts.fit_on), parts.test_counts)
          /\ parts' = [parts EXCEPT !.pc = "failed"]
       \/ /\ ~EvaluateFails(CountsIn(parts.y, parts.fit_on), parts.test_counts)
          /\ \E y_pred \in [parts.test -> {0, 1}] :
                parts' = [parts EXCEPT !.pc = "evaluated", !.eval_on = parts.test,
                            !.y_pred = y_pred,
                            !.metrics = [accuracy |-> AccuracyScore(parts.y, parts.test, y_pred),
                                         confusion_matrix |->
                                            ConfusionMatrix(parts.y, parts.test, y_pred)]]
    /\ UNCHANGED <<fitIn, fitRes, scaler, call, bucket, disk, train, reader, loaded, session>>

\* the run has ended
EndRun ==
    /\ parts.pc \in {"failed", "evaluated", "counted"}
    /\ parts' = NoParts
    /\ UNCHANGED <<fitIn, fitRes, scaler, call, bucket, disk, train, reader, loaded, session>>

NextSplit ==
    \/ /\ parts.pc = "idle"
       /\ \E n \in 1..MaxSplitRows : \E y \in [1..n -> {0, 1}] : train_test_split_df(y)
    \/ /\ parts.pc = "idle"
       /\ \E c0, c1 \in 0..MaxLabels : c0 + c1 > 0 /\ SplitCounts(<<c0, c1>>)
    \/ FitOnTrain
    \/ evaluate_model
    \/ EndRun

----------------------------------------------------------------------------

(* The prediction history of a dashboard session (streamlit_app.py lines   *)
(* 215-216, 386-397, 606-622).  A record is its timestamp, the number of   *)
(* the prediction in the session, and its risk category.                   *)

\* line 394: prediction_history[-5:]
LastFive(h) == SubSeq(h, IF Len(h) > 5 THEN Len(h) - 4 ELSE 1, Len(h))

\* line 395: len(prediction_history) - 4 + i
Label(n, i) == n - 4 + i

\* lines 387-397: the expanders of the sidebar, one per entry of the last five
Sidebar(h) ==
    AsSeq([k \in 1..Len(LastFive(h)) |->
            [label |-> Label(Len(h), k - 1), pred |-> LastFive(h)[k]]])

\* lines 215-216
InitHistory == session = [prediction_history |-> <<>>, sidebar |-> <<>>, clock |-> 0]

\* lines 593-622: Predict is clicked; the script has drawn the sidebar from
\* the history as it was, then appends the record
Predict(risk_category) ==
    /\ session.clock < MaxPredictions
    /\ session' = [prediction_history |->
                        Append(session.prediction_history,
                               [timestamp |-> session.clock + 1,
                                risk_category |-> risk_category]),
                   sidebar |-> Sidebar(session.prediction_history),
                   clock |-> session.clock + 1]
    /\ UNCHANGED <<fitIn, fitRes, scaler, call, bucket, disk, train, reader, loaded, parts>>

\* lines 390-392: Clear History, shown when the sidebar lists a history, is
\* clicked; st.rerun() draws the sidebar again
ClearHistory ==
    /\ session.sidebar # <<>>
    /\ session' = [session EXCEPT !.prediction_history = <<>>, !.sidebar = <<>>]
    /\ UNCHANGED <<fitIn, fitRes, scaler, call, bucket, disk, train, reader, loaded, parts>>

\* any other interaction reruns the script, which draws the sidebar
RerunScript ==
    /\ session' = [session EXCEPT !.sidebar = Sidebar(session.prediction_history)]
    /\ UNCHANGED <<fitIn, fitRes, scaler, call, bucket, disk, train, reader, loaded, parts>>

NextHistory ==
    \/ \E risk_category \in {"Low", "Moderate", "High"} : Predict(risk_category)
    \/ ClearHistory
    \/ RerunScript

----------------------------------------------------------------------------

Init == InitPre /\ InitBucket /\ InitPersist /\ InitLoad /\ InitSplit /\ InitHistory

SpecPre == Init /\ [][NextPre]_vars

SpecBucket == Init /\ [][NextBucket]_vars

SpecPersist == Init /\ [][NextPersist]_vars

SpecLoad == Init /\ [][NextLoad]_vars

SpecSplit == Init /\ [][NextSplit]_vars

SpecHistory == Init /\ [][NextHistory]_vars

Next == NextPre \/ NextBucket \/ NextPersist \/ NextLoad \/ NextSplit \/ NextHistory

Spec == Init /\ [][Next]_vars

----------------------------------------------------------------------------
(* Claims about the feature pipeline (SpecPre) *)

\* position of feature c in a result's columns, 0 when absent
ColIndex(r, c) ==
    IF c \in Range(r.cols) THEN CHOOSE k \in DOMAIN r.cols : r.cols[k] = c ELSE 0

\* the calls made so far that got as far as encoding, each with its input
Calls ==
    {<<fitIn, fitRes>>, <<call.input, call.res>>}

\* the apply-mode call on row call.row alone returned the row's fit-mode vector
RoundTrips ==
    /\ call.res.err = "none"
    /\ call.res.cols = fitRes.cols
    /\ \A k \in DOMAIN fitRes.cols : call.res.X[k] = <<fitRes.X[k][call.row]>>

\* C1 as stated: for every batch B and every row r of B, transforming r alone
\* with the scaler fitted on B yields the standardized vector r got in fit mode.
C1_RoundTripEveryRow ==
    call.kind = "row" => RoundTrips

\* the canonical fields a table holds
FieldsOf(df) == {c \in Range(FEATURE_COLS) : HasColumn(df, c)}

\* C2 as stated: an apply-mode call on a single record with only 2 of the 8
\* canonical fields succeeds and returns one row with all 8 canonical columns.
C2_MissingFieldTolerance ==
    (call.kind = "single" /\ scaler.fitted /\ Cardinality(FieldsOf(call.input)) = 2)
        => /\ call.res.err = "none"
           /\ call.res.cols = FEATURE_COLS
           /\ \A k \in DOMAIN call.res.X : Len(call.res.X[k]) = 1

AllFinite(r) ==
    r.err = "none" => \A k \in DOMAIN r.X : \A i \in DOMAIN r.X[k] : Finite(r.X[k][i])

\* C3 as stated: in fit mode and in apply mode every value of the returned
\* matrix is finite, whatever the pattern of missing values.
C3_OutputFinite ==
    AllFinite(fitRes) /\ AllFinite(call.res)

\* C5: an apply-mode call leaves the shared scaler as it found it and
\* returns that same scaler.
C5_ApplyNeverRefits ==
    [][(call' # call /\ call'.kind # "none")
          => (scaler' = scaler /\ call'.res.scaler = scaler)]_vars

\* C5 witness: an apply-mode call has returned a matrix for a record whose
\* values are not those the scaler was fitted on
C5_Witness ==
    /\ call.kind = "single"
    /\ call.res.err = "none"
    /\ scaler.fitted
    /\ scaler # ScalerAfterRefit(scaler, call.res.cols, call.res.enc)

\* the recognized forms of the sex field, in any letter case
SexMeansOne(v) == (IsStr(v) /\ Lower(v[4]) \in {"male", "m", "1"}) \/ v = Num(2)
SexMeansZero(v) == (IsStr(v) /\ Lower(v[4]) \in {"female", "f", "0"}) \/ v = Num(0)

SexEncodedPerRow(df, r) ==
    (r.enc # <<>> /\ ColIndex(r, "sex") # 0) =>
        \A i \in 1..NRows(df) :
            LET v == Column(df, "sex")[i]
                e == r.enc[ColIndex(r, "sex")][i]
            IN  /\ SexMeansOne(v) => e = Num(2)
                /\ SexMeansZero(v) => e = Num(0)

\* C9 as stated: a row's encoded sex is decided by its own value: male, m, 1
\* give 1 and female, f, 0 give 0, whatever the other rows hold.
C9_SexEncodedByOwnValue ==
    \A c \in Calls : SexEncodedPerRow(c[1], c[2])

IsBinary(v) == v \in {Num(0), Num(2)}

ColumnBinary(r, c) ==
    (r.enc # <<>> /\ ColIndex(r, c) # 0) =>
        \A i \in DOMAIN r.enc[ColIndex(r, c)] : IsBinary(r.enc[ColIndex(r, c)][i])

\* C10 as stated: after encoding, every sex, fbs and exang value is 0 or 1.
C10_BinaryAfterEncoding ==
    \A c \in Calls : \A f \in {"sex", "fbs", "exang"} : ColumnBinary(c[2], f)

SexAllRecognized(df) ==
    \A i \in 1..NRows(df) :
        SexMeansOne(Column(df, "sex")[i]) \/ SexMeansZero(Column(df, "sex")[i])

\* C10 as amended: after encoding, every fbs and exang value is 0 or 1, and
\* every sex value is 0 or 1 when all sex values of the batch are recognized
\* forms (male, m, 1, female, f, 0 in any letter case).
C10_FlagsBinarySexWhenRecognized ==
    \A c \in Calls :
        /\ ColumnBinary(c[2], "fbs")
        /\ ColumnBinary(c[2], "exang")
        /\ (HasColumn(c[1], "sex") /\ SexAllRecognized(c[1])) => ColumnBinary(c[2], "sex")

\* C10 witness: a batch whose flag column holds the number 2
\* beside text has been encoded
C10_Witness ==
    /\ fitRes.err = "none"
    /\ NRows(fitIn) = 2
    /\ \E i, j \in 1..2 :
        /\ IsStr(Column(fitIn, "fbs")[i])
        /\ Column(fitIn, "fbs")[i][4] = "TRUE"
        /\ Column(fitIn, "fbs")[j] = Num(4)
    /\ \E i, j \in 1..2 :
        /\ Column(fitIn, "sex")[i] = Num(2)
        /\ Column(fitIn, "sex")[j] = Num(0)

----------------------------------------------------------------------------
(* Claims about the risk buckets (SpecBucket) *)

\* C4: for thresholds low < high, the single-prediction path and the batch
\* bucketize return "Low" exactly when p < low, "Moderate" exactly when
\* low <= p <= high (p = low and p = high included), "High" exactly when p > high.
C4_BucketBoundaries ==
    bucket.low_thr < bucket.high_thr =>
        \A i \in DOMAIN bucket.shown.probas :
            LET p == bucket.shown.probas[i]
                b == bucket.shown.labels[i]
            IN  /\ b \in {"Low", "Moderate", "High"}
                /\ b = "Low" <=> p < bucket.low_thr
                /\ b = "Moderate" <=> (bucket.low_thr <= p /\ p <= bucket.high_thr)
                /\ b = "High" <=> p > bucket.high_thr

\* C4 witness: a batch holding p = low and p = high has been bucketed under
\* thresholds low < high
C4_Witness ==
    /\ bucket.low_thr < bucket.high_thr
    /\ bucket.shown.path = "batch"
    /\ bucket.shown.probas = <<bucket.low_thr, bucket.high_thr>>
    /\ bucket.shown.labels = <<"Moderate", "Moderate">>

BucketRank(b) == CASE b = "Low" -> 1 [] b = "Moderate" -> 2 [] b = "High" -> 3

\* C28: under any pair of thresholds, low >= high included, every
\* probability is given one of the three buckets, the buckets of one batch
\* never go down as the probability goes up, and on either path the bucket
\* is Low below the low threshold and never Low at or above it, High only
\* above the high threshold.
C28_OneBucketNeverDecreasing ==
    LET ps == bucket.shown.probas
        bs == bucket.shown.labels
    IN  /\ Len(bs) = Len(ps)
        /\ \A i \in DOMAIN ps :
            /\ bs[i] \in {"Low", "Moderate", "High"}
            /\ bs[i] = "Low" <=> ps[i] < bucket.low_thr
            /\ bs[i] = "High" => ps[i] > bucket.high_thr
        /\ \A i, j \in DOMAIN ps :
            ps[i] <= ps[j] => BucketRank(bs[i]) <= BucketRank(bs[j])

\* C28 witness: under a low threshold above the high one, a batch holding a
\* probability between the two and one at the low threshold has been
\* bucketed Low and High
C28_Witness ==
    /\ bucket.low_thr > bucket.high_thr
    /\ bucket.shown.path = "batch"
    /\ bucket.shown.probas = <<50, 66>>
    /\ bucket.low_thr = 66
    /\ bucket.shown.labels = <<"Low", "High">>

----------------------------------------------------------------------------
(* Claims about training and the artifacts (SpecPersist) *)

\* C6 as stated: a reader concurrent with save_artifacts never obtains a
\* classifier and a scaler of two different training runs and never meets a
\* partially written artifact; the triple becomes visible as one unit.
C6_AtomicVisibility ==
    /\ reader.pc # "error"
    /\ (reader.pc = "done" /\ (reader.model # 0 \/ reader.scaler # 0))
            => (reader.scaler = reader.model /\ reader.metrics = reader.model)

\* C7 as stated: load_artifacts returns all three of classifier, scaler and
\* metrics, or nothing usable; never classifier and scaler with absent metrics.
C7_AllOrNothing ==
    reader.pc = "done" =>
        \/ reader.model # 0 /\ reader.scaler # 0 /\ reader.metrics # 0
        \/ reader.model = 0 /\ reader.scaler = 0 /\ reader.metrics = 0

\* C7 as amended: load_artifacts returns a classifier and a scaler together,
\* with the metrics or without them, or returns nothing; it never returns one
\* of classifier and scaler without the other, nor metrics without them.
C7_ClassifierAndScalerTogether ==
    reader.pc = "done" =>
        \/ reader.model # 0 /\ reader.scaler # 0
        \/ reader.model = 0 /\ reader.scaler = 0 /\ reader.metrics = 0

\* C7 witness: a read has returned a classifier and a scaler with no metrics
C7_Witness ==
    /\ reader.pc = "done"
    /\ reader.model # 0
    /\ reader.scaler # 0
    /\ reader.metrics = 0

\* C8: a training run whose split or evaluation failed has created or
\* modified no artifact file, and a run that has written to a file has
\* completed its split and its evaluation without error.
C8_SaveOnlyAfterEvaluation ==
    /\ train.pc = "failed" => \A f \in FILES : disk[f].run # train.run
    /\ (\E f \in FILES : disk[f].run = train.run /\ train.run # 0)
            => (~SplitFails(train.y) /\ ~EvaluateFails(train.y, train.test))

\* C8 witness: the second run has failed in evaluation, on a test set of one
\* class drawn from two classes of at least 2 rows, with the first run's
\* artifacts on disk
C8_Witness ==
    /\ train.pc = "failed"
    /\ train.run = 2
    /\ train.y[1] >= 2 /\ train.y[2] >= 2
    /\ ~SplitFails(train.y)
    /\ NClasses(train.test) = 1
    /\ \A f \in FILES : disk[f] = Complete(1)

----------------------------------------------------------------------------
(* Claims about the encoders, imputation and the shape of the result (SpecPre) *)

SexUnrecognized(v) ==
    ~IsNaN(v) /\ ~SexMeansOne(v) /\ ~SexMeansZero(v)

SexHasForeignText(col) ==
    \E i \in DOMAIN col :
        /\ IsStr(col[i])
        /\ col[i][4] \notin {"male", "m", "1", "female", "f", "0"}
        /\ Strip(col[i][4]) \notin {"0", "1", "2", "3"}

\* what an unrecognized value v becomes in a sex column col
SexUnrecognizedBecomes(v, col) ==
    IF SexHasForeignText(col)
    THEN IF IsStr(v) /\ Strip(Lower(v[4])) \in {"male", "m"} THEN Num(2) ELSE Num(0)
    ELSE IF IsNum(v) THEN v
    ELSE Num(ParseFloat(v[4]))

FlagIsOne(v) ==
    (IsStr(v) /\ v[4] \in {"1", "true", "True"}) \/ v = Num(2)

FlagOf(v) == IF FlagIsOne(v) THEN Num(2) ELSE Num(0)

ObservedAt(col) == {<<i, col[i][2]>> : i \in {j \in DOMAIN col : IsNum(col[j])}}

\* the least observed value with at least k observed values at or below it
KthSmallest(col, k) ==
    LET obs == ObservedAt(col)
        atMost(x) == Cardinality({o \in obs : o[2] <= x})
    IN  CHOOSE x \in {o[2] : o \in obs} :
            /\ atMost(x) >= k
            /\ \A z \in {o[2] : o \in obs} : atMost(z) >= k => x <= z

\* the median of the observed values: the middle one, or the mean of the two
\* middle ones; missing when nothing is observed
MedianOfObserved(col) ==
    LET n == Cardinality(ObservedAt(col))
    IN  IF n = 0 THEN NaN
        ELSE Num((KthSmallest(col, (n + 1) \div 2) + KthSmallest(col, n \div 2 + 1)) \div 2)

ColumnsReversed(df) ==
    LET n == Len(df.cols)
    IN  Table(AsSeq([k \in 1..n |-> df.cols[n + 1 - k]]), AsSeq([k \in 1..n |-> df.data[n + 1 - k]]))

\* s is a subsequence of FEATURE_COLS
InCanonicalOrder(s) ==
    s = SelectSeq(FEATURE_COLS, LAMBDA c : c \in Range(s))

\* C14: the columns of the returned matrix follow the canonical schema order,
\* and the same rows with their fields supplied in another column order give
\* the same result.
C14_OrderInvariance ==
    /\ \A c \in Calls : InCanonicalOrder(c[2].cols)
    /\ fitRes.err = "none" =>
            [preprocess_features(ColumnsReversed(fitIn), TRUE, NoScaler) EXCEPT !.df = fitIn]
                = fitRes
    /\ call.res.err = "none" =>
            [preprocess_features(ColumnsReversed(call.input), FALSE, scaler)
                EXCEPT !.df = call.input] = call.res

\* C14 witness: a table that holds sex before age has been fit and the matrix
\* holds age before sex
C14_Witness ==
    /\ fitRes.err = "none"
    /\ fitIn.cols = <<"sex", "age">>
    /\ fitRes.cols = <<"age", "sex">>

\* a successful result on table df has one row per row of df, and row i of
\* the result comes from row i of df
RowsKept(df, r) ==
    r.err = "none" =>
        /\ \A k \in DOMAIN r.cols :
            /\ Len(r.enc[k]) = NRows(df)
            /\ Len(r.X[k]) = NRows(df)
            /\ \A i \in 1..NRows(df) : r.X[k][i] = ScaleValue(r.enc[k][i], r.scaler.stats[k])
            /\ LET col == Column(df, r.cols[k])
               IN  (r.cols[k] \notin {"fbs", "exang"} /\ \A i \in DOMAIN col : IsNum(col[i]))
                        => r.enc[k] = col
        /\ HasColumn(df, TARGET_COL) => r.y = Column(df, TARGET_COL)

\* C15: for a batch of N rows preprocess_features returns N rows, and batch
\* prediction returns N probabilities and N buckets, output row i being
\* derived from input row i.
C15_RowsPreserved ==
    /\ \A c \in Calls : RowsKept(c[1], c[2])
    /\ call.out.status = "ok" =>
        /\ Len(call.out.probability) = NRows(call.input)
        /\ Len(call.out.risk_bucket) = NRows(call.input)
        /\ Len(call.out.prediction) = NRows(call.input)
        /\ \A i \in 1..NRows(call.input) :
            LET p == call.out.probability[i]
            IN  /\ call.out.risk_bucket[i] =
                        IF p < bucket.low_thr THEN "Low"
                        ELSE IF p > bucket.high_thr THEN "High" ELSE "Moderate"
                /\ call.out.prediction[i] = IF p >= 50 THEN 1 ELSE 0

\* C15 witness: a batch of two rows has been predicted, the first row Low and
\* the second High
C15_Witness ==
    /\ call.kind = "batch"
    /\ call.out.status = "ok"
    /\ NRows(call.input) = 2
    /\ call.out.probability = <<low_default - 1, high_default + 1>>
    /\ call.out.risk_bucket = <<"Low", "High">>

\* none of the 8 canonical columns is in the table
NoCanonicalColumn(df) ==
    \A k \in DOMAIN FEATURE_COLS : ~HasColumn(df, FEATURE_COLS[k])

\* C16: preprocess_features on a batch in which none of the 8 canonical
\* columns is present fails with an error and returns no matrix and no scaler.
C16_NoFeatureError ==
    /\ (fitRes.err \notin {"unset", "released"} /\ NoCanonicalColumn(fitIn))
            => (fitRes.err = "no_features" /\ fitRes.X = <<>> /\ fitRes.enc = <<>>
                /\ scaler = NoScaler)
    /\ (call # NoCall /\ NoCanonicalColumn(call.input))
            => (call.res.err = "no_features" /\ call.res.X = <<>> /\ call.res.enc = <<>>)

\* C16 witness: a table of the columns Age, gender and id, none of them a
\* canonical name as written, has been given to fit mode and refused
C16_Witness ==
    /\ fitIn.cols = <<"Age", "gender", "id">>
    /\ fitRes.err = "no_features"
    /\ scaler = NoScaler

\* C17: an apply-mode call with no scaler fails with an error for every batch
\* that has a canonical column; it fits no scaler and returns no data.
C17_NoScalerError ==
    [][(call' # call /\ call'.kind # "none" /\ scaler = NoScaler
            /\ ~NoCanonicalColumn(call'.input))
          => (call'.res.err = "no_scaler" /\ call'.res.X = <<>> /\ scaler' = NoScaler)]_vars

\* C17 witness: a single record with every canonical field has been given to
\* apply mode without a scaler and refused
C17_Witness ==
    /\ call.kind = "single"
    /\ \A k \in DOMAIN FEATURE_COLS : HasColumn(call.input, FEATURE_COLS[k])
    /\ call.res.err = "no_scaler"
    /\ scaler = NoScaler

----------------------------------------------------------------------------
(* Claims about column resolution (SpecLoad) *)

\* column name c is variant v, letter case aside
MatchesVariant(c, v) == LowerName(c) = LowerName(v)

\* variant k of std matches a column of df and no earlier variant does
EarliestMatch(df, std, k) ==
    LET vs == COLUMN_MAP_CANDIDATES(std)
    IN  /\ \E i \in DOMAIN df.cols : MatchesVariant(df.cols[i], vs[k])
        /\ \A j \in 1..(k - 1) : \A i \in DOMAIN df.cols : ~MatchesVariant(df.cols[i], vs[j])

\* C18: for each canonical name, map_columns renames to it a column that
\* matches, letter case aside, the earliest variant of its list matched by any
\* column; it renames no other column, and a canonical name with no matching
\* column is absent from the output.
C18_FirstVariantWins ==
    loaded # NotLoaded =>
        LET raw == loaded.raw
            out == loaded.df
        IN  /\ Len(out.cols) = Len(raw.cols)
            /\ out.data = raw.data
            /\ \A s \in DOMAIN STD_NAMES :
                LET std == STD_NAMES[s]
                    vs == COLUMN_MAP_CANDIDATES(std)
                IN  /\ \A k \in DOMAIN vs :
                        EarliestMatch(raw, std, k) =>
                            /\ \E i \in DOMAIN raw.cols :
                                MatchesVariant(raw.cols[i], vs[k]) /\ out.cols[i] = std
                            /\ \A i \in DOMAIN raw.cols :
                                (out.cols[i] = std /\ raw.cols[i] # std)
                                    => MatchesVariant(raw.cols[i], vs[k])
                    /\ (\A k \in DOMAIN vs : ~EarliestMatch(raw, std, k)) => ~HasColumn(out, std)
            /\ \A i \in DOMAIN raw.cols :
                out.cols[i] # raw.cols[i] => out.cols[i] \in Range(STD_NAMES)

\* C18 witness: a file with the columns gender, sex and RestingBP has been
\* loaded: sex keeps its name, gender is left alone, RestingBP becomes trestbps
C18_Witness ==
    /\ loaded.raw.cols = <<"gender", "sex", "RestingBP">>
    /\ loaded.df.cols = <<"gender", "sex", "trestbps">>

\* C19 as stated: the resolved table exposes only canonical names (and the
\* label): every column that matches no variant is dropped.
C19_OnlyCanonicalNames ==
    \A i \in DOMAIN loaded.df.cols : loaded.df.cols[i] \in Range(STD_NAMES)

\* column name c matches no variant of any canonical name
Unmatched(c) ==
    \A s \in DOMAIN STD_NAMES :
        \A k \in DOMAIN COLUMN_MAP_CANDIDATES(STD_NAMES[s]) :
            ~MatchesVariant(c, COLUMN_MAP_CANDIDATES(STD_NAMES[s])[k])

\* C19 as amended: map_columns drops no column: a column that matches no
\* variant stays in the resolved table under its own name with its values;
\* it is preprocess_features that leaves it out, its matrix holding canonical
\* feature names only.
C19_UnmatchedColumnsKept ==
    loaded # NotLoaded =>
        /\ Len(loaded.df.cols) = Len(loaded.raw.cols)
        /\ \A i \in DOMAIN loaded.raw.cols :
            Unmatched(loaded.raw.cols[i]) =>
                /\ loaded.df.cols[i] = loaded.raw.cols[i]
                /\ loaded.df.data[i] = loaded.raw.data[i]
        /\ Range(preprocess_features(loaded.df, TRUE, NoScaler).cols) \subseteq Range(FEATURE_COLS)

\* C19 witness: a file with the columns id and gender has been loaded and
\* the resolved table still holds id
C19_Witness ==
    /\ loaded.raw.cols = <<"id", "gender">>
    /\ loaded.df.cols = <<"id", "sex">>
    /\ preprocess_features(loaded.df, TRUE, NoScaler).cols = <<"sex">>

\* C20: map_columns(map_columns(t)) has the columns and values of
\* map_columns(t), and a table whose columns are already canonical names is
\* returned unchanged.
C20_Idempotent ==
    loaded # NotLoaded =>
        /\ map_columns(loaded.df) = loaded.df
        /\ (\A i \in DOMAIN loaded.raw.cols : loaded.raw.cols[i] \in Range(STD_NAMES))
                => loaded.df = loaded.raw

\* C20 witness: a file whose columns are the canonical sex and age and
\* another one's variant has been loaded
C20_Witness ==
    /\ loaded.raw.cols = <<"sex", "age", "Chol">>
    /\ loaded.df.cols = <<"sex", "age", "chol">>
    /\ map_columns(loaded.df) = loaded.df

\* C29 as stated: for every input table whose column names are pairwise
\* distinct, the table map_columns returns has pairwise distinct column
\* names: no canonical name labels two columns.
C29_NamesStayDistinct ==
    Distinct(loaded.raw.cols) => Distinct(loaded.df.cols)

----------------------------------------------------------------------------
(* Claims about the batch handler's columns (SpecPre) *)

AllMissing(col) == \A i \in DOMAIN col : IsNaN(col[i])

\* C21: in a batch prediction every canonical column absent from the
\* uploaded table after column resolution is in the table handed to the
\* transform as an entirely-missing column, the columns the upload held keep
\* their values, and the matrix that reaches the classifier has all 8
\* canonical columns.
C21_MissingColumnsAdded ==
    call.kind = "batch" =>
        LET up == map_columns(call.upload)
        IN  /\ \A k \in DOMAIN FEATURE_COLS :
                LET c == FEATURE_COLS[k]
                IN  /\ HasColumn(call.input, c)
                    /\ IF HasColumn(up, c)
                       THEN Column(call.input, c) = Column(up, c)
                       ELSE /\ AllMissing(Column(call.input, c))
                            /\ Len(Column(call.input, c)) = NRows(call.upload)
            /\ call.res.err = "none" =>
                /\ call.res.cols = FEATURE_COLS
                /\ Len(call.res.X) = Len(FEATURE_COLS)

\* C21 witness: an upload holding only Age, gender and id has been through
\* the batch handler with a deployed scaler, and its 8-column matrix has
\* reached the classifier
C21_Witness ==
    /\ call.kind = "batch"
    /\ call.upload.cols = <<"Age", "gender", "id">>
    /\ NRows(call.upload) = 2
    /\ AllMissing(Column(call.input, "chol"))
    /\ call.res.err = "none"
    /\ call.res.cols = FEATURE_COLS

----------------------------------------------------------------------------
(* Claims about the worked example (SpecPre) *)

\* the scaler's statistics of column c give mean m and standard deviation sd
\* (in halves): s/n = m and q/n - (s/n)^2 = sd^2
ScalerHas(sc, c, m, sd) ==
    /\ sc.fitted
    /\ \E k \in DOMAIN sc.cols :
        /\ sc.cols[k] = c
        /\ sc.stats[k].n > 0
        /\ sc.stats[k].s = m * sc.stats[k].n
        /\ sc.stats[k].n * sc.stats[k].q - sc.stats[k].s * sc.stats[k].s
                = sd * sd * sc.stats[k].n * sc.stats[k].n

\* a scaled value that is 0: its numerator is 0
IsZero(v) == v[1] \in {"z", "zu"} /\ v[2] = 0

\* C24: the record {age 54, sex "Male", trestbps 130, chol 246, fbs "No",
\* thalach 150, exang "No", oldpeak 1.0} is encoded, before scaling, as
\* [54, 1, 130, 246, 0, 150, 0, 1.0], and a scaler whose age mean is 54 and
\* age standard deviation is 9 scales its age to 0.
C24_WorkedExample ==
    call.input = ExampleRecord =>
        /\ call.res.cols = FEATURE_COLS
        /\ call.res.enc = <<<<Num(108)>>, <<Num(2)>>, <<Num(260)>>, <<Num(492)>>,
                            <<Num(0)>>, <<Num(300)>>, <<Num(0)>>, <<Num(2)>>>>
        /\ (call.res.err = "none" /\ ScalerHas(call.res.scaler, "age", 108, 18))
                => IsZero(call.res.X[1][1])

\* C24 witness: the record has been transformed with a scaler fit on the
\* ages 45 and 63, and its scaled age is 0
C24_Witness ==
    /\ call.input = ExampleRecord
    /\ call.res.err = "none"
    /\ ScalerHas(scaler, "age", 108, 18)
    /\ call.res.enc[2] = <<Num(2)>>
    /\ IsZero(call.res.X[1][1])

----------------------------------------------------------------------------
(* Claims about the caller's table (SpecPre) *)

\* C25: preprocess_features, in fit mode and in apply mode, and map_columns
\* leave the table they are given as it was: after the call the caller's
\* table has the columns and the values it had before.
C25_InputUntouched ==
    /\ fitRes.err \notin {"unset", "released"} => fitRes.df = fitIn
    /\ call # NoCall =>
        /\ call.res.df = call.input
        /\ call.upload_after = call.upload

\* C25 witness: a table with text in its sex column and a missing value has
\* been through a fit, and one of its rows through an apply-mode call, and
\* each table is what it was
C25_Witness ==
    /\ fitRes.err = "none"
    /\ HasColumn(fitIn, "sex")
    /\ Column(fitIn, "sex") = <<Str("Male"), NaN>>
    /\ fitRes.enc # fitIn.data
    /\ fitRes.df = fitIn
    /\ call.kind = "row"
    /\ call.res.df = call.input

----------------------------------------------------------------------------
(* Claims about the remaining non-numeric columns (SpecPre) *)

\* the largest of a non-empty set of numbers
MaxOf(S) == CHOOSE m \in S : \A x \in S : x <= m

\* out holds the codes of col in order of first appearance: the first value
\* has code 0, a value not seen before the next unused code, and a value
\* seen before the code it had
CodedByFirstAppearance(col, out) ==
    /\ \A i \in DOMAIN col : IsNum(out[i])
    /\ out[1] = Num(0)
    /\ \A i, j \in DOMAIN col : (col[i] = col[j]) <=> (out[i] = out[j])
    /\ \A i \in DOMAIN col :
        (i > 1 /\ \A j \in 1..(i - 1) : col[j] # col[i])
            => out[i][2] = 2 + MaxOf({out[j][2] : j \in 1..(i - 1)})

\* C26: a column that holds text after imputation and binary encoding is
\* converted to numbers when every value of it parses as a number;
\* otherwise every value is replaced by its code in order of first
\* appearance, equal values having equal codes.
C26_ParseOrCode ==
    \A cl \in Calls :
        cl[2].enc # <<>> =>
            \A c \in Range(cl[2].cols) :
                LET given == Impute(Column(cl[1], c))
                    out == cl[2].enc[ColIndex(cl[2], c)]
                IN  IF c \in {"sex", "fbs", "exang"}
                    THEN \A i \in DOMAIN out : ~IsStr(out[i])
                    ELSE IF ~IsObject(given) THEN out = given
                    ELSE IF \A i \in DOMAIN given :
                                IsStr(given[i]) => ParsesAsFloat(given[i][4])
                    THEN \A i \in DOMAIN given :
                            out[i] = IF IsStr(given[i]) THEN Num(ParseFloat(given[i][4]))
                                     ELSE given[i]
                    ELSE CodedByFirstAppearance(given, out)

\* C26 witness: a batch whose ages are "abc" and a missing value has
\* been fit, both rows having code 0
C26_Witness ==
    /\ fitRes.err = "none"
    /\ HasColumn(fitIn, "age")
    /\ Column(fitIn, "age") = <<Str("abc"), NaN>>
    /\ fitRes.enc[ColIndex(fitRes, "age")] = <<Num(0), Num(0)>>

----------------------------------------------------------------------------
(* Claims about the split and the evaluation (SpecSplit) *)

AbsDiff(a, b) == IF a >= b THEN a - b ELSE b - a

\* a split has been made of the data set in parts
SplitMade == parts.pc \in {"split", "counted", "fit", "evaluated"}

\* C22 as stated: the test partition holds 20% of the rows (to the row), the
\* train partition the rest, and each class's count in the test partition is
\* within 1 of 20% of the class's count.
C22_TestCountsWithinOneOfFifth ==
    SplitMade =>
        LET n == parts.counts[1] + parts.counts[2]
            n_test == parts.test_counts[1] + parts.test_counts[2]
        IN  /\ AbsDiff(5 * n_test, n) < 5
            /\ \A k \in 1..2 : AbsDiff(5 * parts.test_counts[k], parts.counts[k]) <= 5

\* C22 as amended: the test partition holds ceil(0.2 n) of the n rows and
\* the train partition the rest; each class's count in the test partition is
\* within 1 of the class's share of it, count * n_test / n, which is 20% of
\* the class's count when n is a multiple of 5.
C22_TestCountsWithinOneOfShare ==
    SplitMade =>
        LET n == parts.counts[1] + parts.counts[2]
            n_test == parts.test_counts[1] + parts.test_counts[2]
        IN  /\ n_test = NTest(n)
            /\ 5 * n_test >= n /\ 5 * n_test < n + 5
            /\ \A k \in 1..2 :
                /\ parts.test_counts[k] <= parts.counts[k]
                /\ AbsDiff(n * parts.test_counts[k], parts.counts[k] * n_test) <= n
                /\ n % 5 = 0 => AbsDiff(5 * parts.test_counts[k], parts.counts[k]) <= 5
            /\ parts.pc # "counted" =>
                /\ Cardinality(parts.test) = n_test
                /\ Cardinality(parts.train) = n - n_test
                /\ CountsIn(parts.y, parts.test) = parts.test_counts

\* C22 witness: a data set of 2 rows of one class and 19 of the other has
\* been split and its 5 test rows are all of the larger class
C22_Witness ==
    /\ parts.pc = "counted"
    /\ parts.counts = <<2, 19>>
    /\ parts.test_counts = <<0, 5>>

\* rows of the evaluated partition with true label t and predicted label p
Outcomes(t, p) ==
    Cardinality({i \in parts.eval_on : parts.y[i] = t /\ parts.y_pred[i] = p})

\* C23: in every Metrics Snapshot evaluate_model returns, the confusion
\* matrix is [[TN, FP], [FN, TP]] of the evaluated rows, and accuracy equals
\* (TN + TP) / (TN + FP + FN + TP) of that matrix.
C23_ConfusionMatrixConsistency ==
    parts.pc = "evaluated" =>
        LET cm == parts.metrics.confusion_matrix
            acc == parts.metrics.accuracy
        IN  /\ cm = <<<<Outcomes(0, 0), Outcomes(0, 1)>>, <<Outcomes(1, 0), Outcomes(1, 1)>>>>
            /\ acc[2] > 0
            /\ acc[1] * (cm[1][1] + cm[1][2] + cm[2][1] + cm[2][2])
                    = (cm[1][1] + cm[2][2]) * acc[2]

\* C23 witness: a snapshot with one false positive, one true positive and
\* no false negative has been returned, its accuracy being 1/2
C23_Witness ==
    /\ parts.pc = "evaluated"
    /\ parts.metrics.confusion_matrix = <<<<0, 1>>, <<0, 1>>>>
    /\ parts.metrics.accuracy = <<1, 2>>

\* C27: in a training run the train and test partitions are disjoint and
\* together hold every row of the data set once; the classifier is fit on
\* the rows of the train partition only, and the metrics are computed on the
\* rows of the test partition only.
C27_PartitionsDisjointAndUsedApart ==
    /\ parts.pc \in {"split", "fit", "evaluated"} =>
        /\ parts.train \cap parts.test = {}
        /\ parts.train \cup parts.test = DOMAIN parts.y
        /\ Cardinality(parts.train) + Cardinality(parts.test) = Len(parts.y)
    /\ parts.pc \in {"fit", "evaluated"} =>
        /\ parts.fit_on = parts.train
        /\ parts.fit_on \cap parts.test = {}
    /\ parts.pc = "evaluated" =>
        /\ parts.eval_on = parts.test
        /\ DOMAIN parts.y_pred = parts.test
        /\ parts.eval_on \cap parts.fit_on = {}

\* C27 witness: a run on 6 rows has fit its classifier on 4 of them and
\* computed its metrics on the other 2
C27_Witness ==
    /\ parts.pc = "evaluated"
    /\ Len(parts.y) = 6
    /\ Cardinality(parts.fit_on) = 4
    /\ Cardinality(parts.eval_on) = 2
    /\ parts.metrics # NoMetrics

----------------------------------------------------------------------------
(* Claims about the prediction history (SpecHistory) *)

\* C30 as stated: after any sequence of Predict and Clear History, each
\* entry the sidebar shows is labelled with its 1-based position in the
\* prediction history, for every history length of at least 1.
C30_LabelsArePositions ==
    \A k \in DOMAIN session.sidebar :
        /\ session.sidebar[k].label \in DOMAIN session.prediction_history
        /\ session.prediction_history[session.sidebar[k].label] = session.sidebar[k].pred

====
